---- MODULE Spec2Model ----
(***************************************************************************)
(* State-machine model of the SRW dispatch core (src/srw/srw.cpp):         *)
(* dnet_upstream_t, dnet_app_t, srw::process, srw::complete_job,           *)
(* dnet_srw_cleanup and dnet_cmd_exec_raw.                                 *)
(*                                                                         *)
(* Strings of the program (event names, payloads) are sequences of         *)
(* one-character strings, so that strchr, sizes and concatenation are      *)
(* computed as the code computes them.  Flag words are sets of flag names. *)
(***************************************************************************)
EXTENDS Integers, Sequences, FiniteSets, TLC

\* ------------------------------------------------------------------ bounds
\* number of dnet_cmd_exec_raw invocations in one behaviour
MaxCalls == 3
\* number of write()/error() callbacks the runtime makes in one behaviour
MaxOps == 2

\* number of upstreams constructed in one behaviour
MaxUp == 1

\* the largest shard index an app counts up to in one behaviour
MaxIndex == 8

\* node I/O threads calling dnet_cmd_exec_raw
Threads == {1, 2}
\* number of upstreams constructed in one behaviour that makes SRC_BLOCK requests only
MaxUpKey == MaxUp + 1

\* upstream objects; app objects are allocated at most once per call
UIds == 1..MaxUpKey
AIds == 1..MaxCalls

\* ------------------------------------------------------------------ errno
EINVAL == 22
ENOENT == 2
EXFULL == 54
ENOTSUP == 95

\* the least idle-timeout start-multiple-task accepts: 60 * 60 * 24 * 30
idle_min == 2592000

\* sizeof(struct sph) in abstract units: only its being positive matters
sizeof_sph == 1

\* ------------------------------------------------------------------ inputs
AppNames == {<<"c">>, <<"v">>}
M_start == <<"s", "t", "a", "r", "t", "-", "t", "a", "s", "k">>
M_start_multiple == <<"s", "t", "a", "r", "t", "-", "m", "u", "l", "t", "i", "p", "l", "e", "-", "t", "a", "s", "k">>
M_stop == <<"s", "t", "o", "p", "-", "t", "a", "s", "k">>
M_info == <<"i", "n", "f", "o">>
M_user == <<"q">>
At == <<"@">>

\* this node's address (st->n->addrs[0]) and the address a frame arrives with
NodeAddr == "self"
PeerAddr == "peer"
\* id of the inbound command and the src id a frame arrives with
CmdId == "cmd-id"
PeerSrc == "peer-src"

NoSph == [data_size |-> 0, event_size |-> 0, flags |-> {}, src_key |-> 0,
          src |-> PeerSrc, addr |-> PeerAddr]

\* an inbound frame: header, event name, payload
Frame(event, flags, key, data) ==
  [sph |-> [data_size |-> Len(data), event_size |-> Len(event), flags |-> flags,
            src_key |-> key, src |-> PeerSrc, addr |-> PeerAddr],
   event |-> event, data |-> data]

ControlFrames ==
  { Frame(<<"c">> \o At \o m, {}, 0, <<>>) : m \in {M_start, M_stop} }
    \cup { Frame(<<"c">> \o At \o M_start_multiple, {}, 0, <<"T">>) }

UserFrames ==
  { Frame(<<"c">> \o At \o M_user, f, -1, <<"x">>) : f \in {{}, {"SRC_BLOCK"}} }
    \cup { Frame(<<"v">> \o At \o M_user, {}, -1, <<"x">>) }

InfoFrames == { Frame(<<"c">> \o At \o M_info, {}, 0, <<>>) }

\* an event name without '@'
BadFrames == { Frame(<<"n">>, fl, 0, <<>>) : fl \in {{}, {"SRC_BLOCK", "FINISH"}} }

ReplyFrames ==
  { Frame(<<"c">> \o At \o M_user, f, k, <<"r">>) :
      f \in {{"REPLY"}, {"FINISH"}, {"REPLY", "SRC_BLOCK"}}, k \in {2} }

InFrames == ControlFrames \cup UserFrames \cup ReplyFrames \cup InfoFrames \cup BadFrames

\* runtime profiles storage("core").get("profiles", app) may return
Profiles == { [idle_timeout |-> 0, pool_limit |-> 2],
              [idle_timeout |-> 60, pool_limit |-> 2],
              [idle_timeout |-> idle_min, pool_limit |-> 3] }

\* no profile loaded
NoProfile == [idle_timeout |-> 0, pool_limit |-> -1]

\* chunks a worker may write: the result of msgpack::unpack on them
Chunks == { [rv |-> "UNPACK_SUCCESS", type |-> "RAW", raw |-> <<"9">>],
            [rv |-> "UNPACK_EXTRA_BYTES", type |-> "RAW", raw |-> <<"8", "8">>],
            [rv |-> "UNPACK_SUCCESS", type |-> "MAP", raw |-> <<>>],
            [rv |-> "UNPACK_PARSE_ERROR", type |-> "NIL", raw |-> <<>>] }

\* codes the runtime passes to error()
ErrCodes == {5, 7}

\* ------------------------------------------------------------------ state
VARIABLES
  srw_alive,   \* n->srw != NULL
  m_map,       \* srw::m_map: app name -> app object id
  apps,        \* dnet_app_t objects
  m_jobs,      \* srw::m_jobs: src_key -> upstream object id
  m_src_key,   \* srw::m_src_key
  m_lock,      \* srw::m_lock: 0 or the thread holding it
  up,          \* dnet_upstream_t objects
  rt,          \* the runtime's reference to each upstream: none/open/closed
  nops,        \* write()/error() callbacks the runtime has made
  frames,      \* what each upstream handed to dnet_send_reply/dnet_send_ack
  last,        \* the stream callback this step made, if it made one
  errcode,     \* the last code the runtime passed to error() on each upstream, 0 if none
  stdack,      \* standard acks the caller of process sent for the request of each upstream
  pc,          \* position of each thread
  req,         \* the call a thread is in: frame, command, locals
  ncalls       \* calls made so far

vars == <<srw_alive, m_map, apps, m_jobs, m_src_key, m_lock, up, rt, nops,
          frames, last, errcode, stdack, pc, req, ncalls>>

\* ------------------------------------------------------------------ helpers
\* strchr() as it would be if it returned the end of the string when c is not in it
strchr_end(s, c) ==
  IF \E i \in 1..Len(s) : s[i] = c
    THEN CHOOSE i \in 1..Len(s) : s[i] = c /\ \A j \in 1..(i - 1) : s[j] # c
    ELSE Len(s)

\* strchr(s, c): index of the first c in s, 0 when there is none
strchr(s, c) ==
  IF \E i \in 1..Len(s) : s[i] = c
    THEN CHOOSE i \in 1..Len(s) : s[i] = c /\ \A j \in 1..(i - 1) : s[j] # c
    ELSE 0

\* C's a % b for b # 0: the result has the sign of a
CMod(a, b) ==
  LET ab == IF b < 0 THEN -b ELSE b
  IN IF a >= 0 THEN a % ab ELSE -((-a) % ab)

Digits == <<"0", "1", "2", "3", "4", "5", "6", "7", "8", "9">>

RECURSIVE Dec(_)
Dec(n) == IF n < 10 THEN <<Digits[n + 1]>> ELSE Dec(n \div 10) \o <<Digits[(n % 10) + 1]>>

\* ioremap::elliptics::lexical_cast(int)
lexical_cast(n) == IF n < 0 THEN <<"-">> \o Dec(-n) ELSE Dec(n)

\* atomic_inc() as it would be if it stored nothing
atomic_inc_same(v) == v

\* atomic_inc(&v): the incremented value, which is also what is stored
atomic_inc(v) == v + 1

\* srw::total_size
total_size(sph) == sph.event_size + sph.data_size

\* a byte buffer handed to reply(): NULL, or header + event name + data
NullBuf == [ptr |-> FALSE, sph |-> NoSph, event |-> <<>>, data |-> <<>>]
Buf(sph, event, data) == [ptr |-> TRUE, sph |-> sph, event |-> event, data |-> data]

\* ------------------------------------------------------------------ sph_wrapper
\* sph_wrapper(p_sph): the header by value and the event_size bytes after it
sph_wrapper(sph, bytes) ==
  [sph |-> sph, event |-> SubSeq(bytes, 1, sph.event_size)]

\* ------------------------------------------------------------------ dnet_upstream_t
NoUpstream ==
  [st |-> "none", m_completed |-> FALSE, m_state |-> FALSE,
   m_cmd |-> [id |-> CmdId, flags |-> {}], m_sph |-> sph_wrapper(NoSph, <<>>),
   m_error |-> 0, m_lock |-> 0]

\* the constructor: m_completed(false), the connection reference taken,
\* the command and the header captured by value, m_error(0); m_lock is 0 when free
\* and names its holder otherwise
dnet_upstream_t(cmd, w) ==
  [st |-> "live", m_completed |-> FALSE, m_state |-> TRUE,
   m_cmd |-> cmd, m_sph |-> w, m_error |-> 0, m_lock |-> 0]

\* std::unique_lock<std::mutex> guard(m_lock) in reply(), taken by holder h
lock_upstream(U, h) == [U EXCEPT !.m_lock = h]

\* the end of reply() as it would be if the guard outlived it
unlock_upstream_late(U) == U

\* the end of reply(): the guard goes out of scope
unlock_upstream(U) == [U EXCEPT !.m_lock = 0]

\* dnet_send_reply(m_state, &m_cmd, reply, size, more) as seen on the wire
send_reply(U, buf, size, more, by) ==
  [type |-> "reply", more |-> more, err |-> 0, cmd_flags |-> U.m_cmd.flags,
   buf |-> buf, size |-> size, st |-> U.m_state, by |-> by]

\* dnet_send_ack(m_state, &m_cmd, m_error, 0) as seen on the wire
send_ack(U, err, by) ==
  [type |-> "ack", more |-> FALSE, err |-> err, cmd_flags |-> U.m_cmd.flags,
   buf |-> NullBuf, size |-> 0, st |-> U.m_state, by |-> by]

\* reply() as it would be without the test of m_completed
reply_nolatch(U, F, completed, buf, size, by) ==
  LET U1 == [U EXCEPT !.m_completed = completed]
  IN IF ("SRC_BLOCK" \in U.m_sph.sph.flags) \/ (buf.ptr /\ size # 0)
       THEN IF buf.ptr /\ size # 0
              THEN [u |-> U1, f |-> Append(F, send_reply(U1, buf, size, ~completed, by))]
              ELSE IF completed
                     THEN [u |-> U1, f |-> Append(F, send_ack(U1, U1.m_error, by))]
                     ELSE [u |-> U1, f |-> F]
       ELSE [u |-> U1, f |-> F]

\* reply() as it would be with m_completed assigned before it is tested
reply_relatch(U, F, completed, buf, size, by) ==
  IF U.m_completed
    THEN [u |-> [U EXCEPT !.m_completed = completed], f |-> F]
    ELSE
      LET U1 == [U EXCEPT !.m_completed = completed]
      IN IF ("SRC_BLOCK" \in U.m_sph.sph.flags) \/ (buf.ptr /\ size # 0)
           THEN IF buf.ptr /\ size # 0
                  THEN [u |-> U1, f |-> Append(F, send_reply(U1, buf, size, ~completed, by))]
                  ELSE IF completed
                         THEN [u |-> U1, f |-> Append(F, send_ack(U1, U1.m_error, by))]
                         ELSE [u |-> U1, f |-> F]
           ELSE [u |-> U1, f |-> F]

\* dnet_upstream_t::reply, the whole of it under m_lock of the upstream.
\* U is the object, F the frames it has emitted; `by` names the caller.
reply(U, F, completed, buf, size, by) ==
  IF U.m_completed
    THEN [u |-> U, f |-> F]
    ELSE
      LET U1 == [U EXCEPT !.m_completed = completed]
      IN IF ("SRC_BLOCK" \in U.m_sph.sph.flags) \/ (buf.ptr /\ size # 0)
           THEN IF buf.ptr /\ size # 0
                  THEN LET U2 == IF completed
                                   THEN [U1 EXCEPT !.m_cmd.flags = @ \ {"NEED_ACK"}]
                                   ELSE U1
                       IN [u |-> U2, f |-> Append(F, send_reply(U2, buf, size, ~completed, by))]
                  ELSE IF completed
                         THEN LET U2 == [U1 EXCEPT !.m_cmd.flags = @ \cup {"NEED_ACK"}]
                              IN [u |-> U2, f |-> Append(F, send_ack(U2, U2.m_error, by))]
                         ELSE [u |-> U1, f |-> F]
           ELSE [u |-> U1, f |-> F]

\* write() as it would be without the fix of the sizes in the copied header
write_nopatch(U, F, chunk) ==
  IF (chunk.rv # "UNPACK_SUCCESS" /\ chunk.rv # "UNPACK_EXTRA_BYTES") \/ chunk.type # "RAW"
    THEN reply(U, F, TRUE, NullBuf, 0, "write")
    ELSE reply(U, F, FALSE, Buf(U.m_sph.sph, U.m_sph.event, chunk.raw),
               sizeof_sph + Len(U.m_sph.event) + Len(chunk.raw), "write")

\* dnet_upstream_t::write
write(U, F, chunk) ==
  LET err == IF chunk.rv # "UNPACK_SUCCESS" /\ chunk.rv # "UNPACK_EXTRA_BYTES"
               THEN EINVAL
               ELSE IF chunk.type # "RAW" THEN EINVAL ELSE 0
  IN IF err # 0
       THEN reply(U, F, TRUE, NullBuf, 0, "write")
       ELSE
         LET data_size == sizeof_sph + Len(U.m_sph.event) + Len(chunk.raw)
             sph_p == [U.m_sph.sph EXCEPT !.event_size = Len(U.m_sph.event),
                                          !.data_size = Len(chunk.raw)]
         IN reply(U, F, FALSE, Buf(sph_p, U.m_sph.event, chunk.raw), data_size, "write")

\* error() as it would be if it kept the first code reported
error_keepfirst(U, code) == IF U.m_error # 0 THEN U ELSE [U EXCEPT !.m_error = -code]

\* dnet_upstream_t::error
error(U, code) == [U EXCEPT !.m_error = -code]

\* dnet_upstream_t::close, up to the call of m_deleter
close(U, F) == reply(U, F, TRUE, NullBuf, 0, "close")

\* the destructor as it would be without its call of reply
destroy_noreply(U, F) ==
  [u |-> [U EXCEPT !.st = "dead", !.m_state = FALSE], f |-> F]

\* dnet_upstream_t::~dnet_upstream_t
destroy_upstream(U, F) ==
  LET r == reply(U, F, TRUE, NullBuf, 0, "dtor")
  IN [u |-> [r.u EXCEPT !.st = "dead", !.m_state = FALSE], f |-> r.f]

\* ------------------------------------------------------------------ dnet_app_t
\* an empty std::map
EmptyMap == [x \in {} |-> 0]

srw_counters == [blocked |-> 0, nonblocked |-> 0, reply |-> 0]

DefaultId == <<"d", "e", "f", "a", "u", "l", "t">>

NoApp ==
  [st |-> "none", m_pool_size |-> -1, m_id |-> DefaultId, m_started |-> FALSE,
   m_sph_index |-> 1, m_counters |-> EmptyMap, running |-> FALSE]

\* the constructor as it would be if it set the shard index to 0
dnet_app_t_index0 ==
  [st |-> "live", m_pool_size |-> -1, m_id |-> DefaultId, m_started |-> FALSE,
   m_sph_index |-> 0, m_counters |-> EmptyMap, running |-> FALSE]

\* the constructor: m_pool_size(-1), m_id("default"), m_started(false), m_sph_index 1;
\* `running` is the state of the cocaine::app_t base
dnet_app_t ==
  [st |-> "live", m_pool_size |-> -1, m_id |-> DefaultId, m_started |-> FALSE,
   m_sph_index |-> 1, m_counters |-> EmptyMap, running |-> FALSE]

\* dnet_app_t::start, when cocaine::app_t::start() returns
start(A) == IF ~A.m_started THEN [A EXCEPT !.running = TRUE, !.m_started = TRUE] ELSE A

\* dnet_app_t::stop
stop(A) == IF A.m_started THEN [A EXCEPT !.m_started = FALSE, !.running = FALSE] ELSE A

\* the destructor as it would be without the call of stop()
destroy_app_nostop(A) == [A EXCEPT !.st = "dead"]

\* dnet_app_t::~dnet_app_t
destroy_app(A) == [stop(A) EXCEPT !.st = "dead"]

\* m_counters[event], default-constructed when absent
CounterOf(C, event) == IF event \in DOMAIN C THEN C[event] ELSE srw_counters

\* update() as it would be with SRC_BLOCK tested before REPLY | FINISH
update_blockfirst(A, event, flags) ==
  LET cur == CounterOf(A.m_counters, event)
      new == IF "SRC_BLOCK" \in flags
               THEN [cur EXCEPT !.blocked = @ + 1]
               ELSE IF flags \cap {"REPLY", "FINISH"} # {}
                      THEN [cur EXCEPT !.reply = @ + 1]
                      ELSE [cur EXCEPT !.nonblocked = @ + 1]
  IN [A EXCEPT !.m_counters =
        [e \in (DOMAIN A.m_counters) \cup {event} |->
           IF e = event THEN new ELSE A.m_counters[e]]]

\* dnet_app_t::update
update(A, event, flags) ==
  LET cur == CounterOf(A.m_counters, event)
      new == IF flags \cap {"REPLY", "FINISH"} # {}
               THEN [cur EXCEPT !.reply = @ + 1]
               ELSE IF "SRC_BLOCK" \in flags
                      THEN [cur EXCEPT !.blocked = @ + 1]
                      ELSE [cur EXCEPT !.nonblocked = @ + 1]
  IN [A EXCEPT !.m_counters =
        [e \in (DOMAIN A.m_counters) \cup {event} |->
           IF e = event THEN new ELSE A.m_counters[e]]]

\* dnet_app_t::set_pool_size, set_task_id
set_pool_size(A, n) == [A EXCEPT !.m_pool_size = n]
set_task_id(A, id) == [A EXCEPT !.m_id = id]

\* get_index() as it would be if the incremented shard index were not stored
get_index_stuck(A, sph_index) ==
  IF A.m_pool_size = -1
    THEN [index |-> -1, a |-> A]
    ELSE IF sph_index = -1
           THEN [index |-> CMod(atomic_inc(A.m_sph_index), A.m_pool_size), a |-> A]
           ELSE [index |-> CMod(sph_index, A.m_pool_size), a |-> A]

\* dnet_app_t::get_index: the index returned and the object afterwards
get_index(A, sph_index) ==
  IF A.m_pool_size = -1
    THEN [index |-> -1, a |-> A]
    ELSE IF sph_index = -1
           THEN [index |-> CMod(atomic_inc(A.m_sph_index), A.m_pool_size),
                 a |-> [A EXCEPT !.m_sph_index = atomic_inc(@)]]
           ELSE [index |-> CMod(sph_index, A.m_pool_size), a |-> A]

\* ------------------------------------------------------------------ calls
NoReq ==
  [sph |-> NoSph, event |-> <<>>, data |-> <<>>,
   cmd |-> [id |-> CmdId, flags |-> {}], err |-> 0,
   app |-> <<>>, ev |-> <<>>, src_key |-> 0,
   upstream |-> 0, made |-> 0, eng |-> 0, queue |-> <<>>,
   raised |-> "none", out |-> <<>>, profile |-> NoProfile]

\* what `last` records: a write(chunk) or an error(code) on upstream u
NoOp == [op |-> "none", u |-> 0, chunk |-> [rv |-> "", type |-> "", raw |-> <<>>], code |-> 0,
         index |-> 0]
OpWrite(u, c) == [NoOp EXCEPT !.op = "write", !.u = u, !.chunk = c]
OpError(u, c) == [NoOp EXCEPT !.op = "error", !.u = u, !.code = c]
\* a get_index(k) on app object a that returned i
OpIndex(a, k, i) == [NoOp EXCEPT !.op = "get_index", !.u = a, !.code = k, !.index = i]

\* ------------------------------------------------------------------ Init
\* the state after dnet_srw_init: the srw object constructed, m_src_key 1
Init ==
  /\ srw_alive = TRUE
  /\ m_map = EmptyMap
  /\ apps = [a \in AIds |-> NoApp]
  /\ m_jobs = EmptyMap
  /\ m_src_key = 1
  /\ m_lock = 0
  /\ up = [u \in UIds |-> NoUpstream]
  /\ rt = [u \in UIds |-> "none"]
  /\ nops = 0
  /\ frames = [u \in UIds |-> <<>>]
  /\ last = NoOp
  /\ errcode = [u \in UIds |-> 0]
  /\ stdack = [u \in UIds |-> 0]
  /\ pc = [t \in Threads |-> "idle"]
  /\ req = [t \in Threads |-> NoReq]
  /\ ncalls = 0

\* ------------------------------------------------------------------ ownership
\* std::shared_ptr: an object is destroyed by the step that drops its last reference.
\* These read the next state's holders, which every action sets first.
UpstreamHeldNext(u) ==
  \/ \E k \in DOMAIN m_jobs' : m_jobs'[k] = u
  \/ rt'[u] # "none"
  \/ \E t \in Threads : req'[t].upstream = u

AppHeldNext(a) ==
  \/ \E n \in DOMAIN m_map' : m_map'[n] = a
  \/ \E t \in Threads : req'[t].eng = a

\* run ~dnet_upstream_t on every upstream left without an owner
ReleaseUpstreams(up1, fr1) ==
  LET gone(u) == up1[u].st = "live" /\ ~UpstreamHeldNext(u)
  IN /\ up' = [u \in UIds |-> IF gone(u) THEN destroy_upstream(up1[u], fr1[u]).u ELSE up1[u]]
     /\ frames' = [u \in UIds |-> IF gone(u) THEN destroy_upstream(up1[u], fr1[u]).f ELSE fr1[u]]

\* run ~dnet_app_t on every app object left without an owner
ReleaseApps(apps1) ==
  apps' = [a \in AIds |->
             IF apps1[a].st = "live" /\ ~AppHeldNext(a) THEN destroy_app(apps1[a]) ELSE apps1[a]]

\* the next unused object ids
NewUpstream == CHOOSE u \in UIds : up[u].st = "none" /\ \A v \in UIds : v < u => up[v].st # "none"
NewApp == CHOOSE a \in AIds : apps[a].st = "none" /\ \A b \in AIds : b < a => apps[b].st # "none"

\* std::map::erase(key) and std::map::insert(pair), which keeps an existing entry
MapErase(m, k) == [x \in (DOMAIN m) \ {k} |-> m[x]]
MapInsert(m, k, v) == IF k \in DOMAIN m THEN m ELSE [x \in (DOMAIN m) \cup {k} |-> IF x = k THEN v ELSE m[x]]

\* ------------------------------------------------------------------ dnet_cmd_exec_raw / srw::process
SetThread(t, p, r) ==
  /\ pc' = [pc EXCEPT ![t] = p]
  /\ req' = [req EXCEPT ![t] = r]

\* process returns err: its locals (upstream, eng) go out of scope
Returned(r, err) == [r EXCEPT !.err = err, !.upstream = 0, !.eng = 0]

\* the bytes that follow the header
Bytes(r) == r.event \o r.data

\* srw::dnet_get_event
dnet_get_event(sph, bytes) == SubSeq(bytes, 1, sph.event_size)

\* an upstream id is left for one more user event
UpstreamsLeft ==
  Cardinality({u \in UIds : up[u].st # "none"}) + Cardinality({t \in Threads : pc[t] = "user"}) < MaxUp

\* dnet_cmd_exec_raw calls process, which parses the event name and picks its branch;
\* a user event with SRC_BLOCK gets its fresh src_key here, before the lock is taken
Exec(t, f) ==
  /\ last' = NoOp
  /\ pc[t] = "idle"
  /\ ncalls' = ncalls + 1
  /\ LET r0 == [NoReq EXCEPT !.sph = f.sph, !.event = f.event, !.data = f.data,
                             !.cmd = [id |-> CmdId, flags |-> {"NEED_ACK"}]]
         event == dnet_get_event(f.sph, Bytes(r0))
         ptr == strchr(event, "@")
         app == SubSeq(event, 1, ptr - 1)
         ev == SubSeq(event, ptr + 1, Len(event))
         r1 == [r0 EXCEPT !.app = app, !.ev = ev]
     IN IF ~srw_alive
          THEN /\ SetThread(t, "ret", Returned(r0, -ENOTSUP))
               /\ UNCHANGED m_src_key
          ELSE IF ptr = 0
            THEN /\ SetThread(t, "ret", Returned(r0, -EINVAL))
                 /\ UNCHANGED m_src_key
            ELSE IF ev = M_start \/ ev = M_start_multiple
              THEN SetThread(t, "start", r1) /\ UNCHANGED m_src_key
            ELSE IF ev = M_stop
              THEN SetThread(t, "stop", r1) /\ UNCHANGED m_src_key
            ELSE IF ev = M_info
              THEN SetThread(t, "info", r1) /\ UNCHANGED m_src_key
            ELSE IF f.sph.flags \cap {"REPLY", "FINISH"} # {}
              THEN SetThread(t, "reply", r1) /\ UNCHANGED m_src_key
            ELSE IF "SRC_BLOCK" \in f.sph.flags
              THEN /\ m_src_key' = atomic_inc(m_src_key)
                   /\ SetThread(t, "user",
                        [r1 EXCEPT !.src_key = f.sph.src_key,
                                   !.sph.src_key = atomic_inc(m_src_key),
                                   !.sph.src = r0.cmd.id])
              ELSE /\ SetThread(t, "user", [r1 EXCEPT !.src_key = f.sph.src_key])
                   /\ UNCHANGED m_src_key
  /\ UNCHANGED <<srw_alive, m_map, apps, m_jobs, m_lock, up, rt, nops, frames, errcode, stdack>>

\* a call of dnet_cmd_exec_raw with any inbound frame
Call(t, f) ==
  /\ ncalls < MaxCalls
  /\ f \in UserFrames => UpstreamsLeft
  /\ Exec(t, f)

\* start-task / start-multiple-task: the lock is taken and the app looked up;
\* a new dnet_app_t is constructed when there is none
StartLock(t) ==
  /\ last' = NoOp
  /\ pc[t] = "start"
  /\ m_lock = 0
  /\ IF req[t].app \in DOMAIN m_map
       THEN /\ SetThread(t, "ret", Returned(req[t], 0))
            /\ UNCHANGED <<apps, m_lock>>
       ELSE /\ apps' = [apps EXCEPT ![NewApp] = dnet_app_t]
            /\ m_lock' = t
            /\ SetThread(t, "starting", [req[t] EXCEPT !.eng = NewApp])
  /\ UNCHANGED <<srw_alive, m_map, m_jobs, m_src_key, up, rt, nops, frames, errcode, stdack, ncalls>>

\* the task id that follows the event name in a start-multiple-task frame
TaskId(r) == SubSeq(Bytes(r), r.sph.event_size + 1, r.sph.event_size + r.sph.data_size)

\* the idle check as it would be without the exemption of 0
idle_rejected_nozero(idle) == idle < idle_min

\* if (idle && idle < idle_min)
idle_rejected(idle) == idle # 0 /\ idle < idle_min

\* eng->start(), the profile check of start-multiple-task and the insert, under the lock.
\* A runtime exception unwinds to dnet_cmd_exec_raw, which returns -EINVAL.
StartRun(t) ==
  /\ last' = NoOp
  /\ pc[t] = "starting"
  /\ m_lock = t
  /\ m_lock' = 0
  /\ LET a == req[t].eng
         multiple == req[t].ev = M_start_multiple
     IN \E outcome \in {"ok", "start_throws", "storage_throws"}, profile \in Profiles :
          /\ outcome = "storage_throws" => multiple
          /\ IF outcome = "start_throws"
               THEN /\ m_map' = m_map
                    /\ SetThread(t, "ret", [Returned(req[t], -EINVAL) EXCEPT !.raised = "start"])
                    /\ ReleaseApps(apps)
               ELSE IF outcome = "storage_throws"
                 THEN /\ m_map' = m_map
                      /\ SetThread(t, "ret", [Returned(req[t], -EINVAL) EXCEPT !.raised = "storage"])
                      /\ ReleaseApps([apps EXCEPT ![a] = start(@)])
               ELSE IF multiple /\ idle_rejected(profile.idle_timeout)
                 THEN /\ m_map' = m_map
                      /\ SetThread(t, "ret", [Returned(req[t], -EINVAL) EXCEPT !.profile = profile])
                      /\ ReleaseApps([apps EXCEPT ![a] = start(@)])
               ELSE LET A1 == start(apps[a])
                        A2 == IF multiple THEN set_pool_size(A1, profile.pool_limit) ELSE A1
                        A3 == IF multiple /\ req[t].sph.data_size # 0
                                THEN set_task_id(A2, TaskId(req[t]))
                                ELSE A2
                    IN /\ m_map' = MapInsert(m_map, req[t].app, a)
                       /\ SetThread(t, "ret", [Returned(req[t], 0) EXCEPT
                                                 !.profile = IF multiple THEN profile ELSE NoProfile])
                       /\ ReleaseApps([apps EXCEPT ![a] = A3])
  /\ UNCHANGED <<srw_alive, m_jobs, m_src_key, up, rt, nops, frames, errcode, stdack, ncalls>>

\* stop-task: the entry is erased under the lock; when the map held the last
\* reference, ~dnet_app_t and so the runtime's stop sequence start inside erase
StopLock(t) ==
  /\ last' = NoOp
  /\ pc[t] = "stop"
  /\ m_lock = 0
  /\ IF req[t].app \in DOMAIN m_map
       THEN LET a == m_map[req[t].app]
            IN /\ m_map' = MapErase(m_map, req[t].app)
               /\ IF \E o \in Threads : req[o].eng = a
                    THEN /\ SetThread(t, "ret", Returned(req[t], 0))
                         /\ UNCHANGED <<apps, m_lock>>
                    ELSE /\ apps' = [apps EXCEPT ![a].st = "stopping"]
                         /\ m_lock' = t
                         /\ SetThread(t, "stopping", [req[t] EXCEPT !.eng = a])
       ELSE /\ SetThread(t, "ret", Returned(req[t], 0))
            /\ UNCHANGED <<m_map, apps, m_lock>>
  /\ UNCHANGED <<srw_alive, m_jobs, m_src_key, up, rt, nops, frames, errcode, stdack, ncalls>>

\* the runtime's stop sequence ends, erase returns and the lock is released
StopRun(t) ==
  /\ last' = NoOp
  /\ pc[t] = "stopping"
  /\ m_lock = t
  /\ m_lock' = 0
  /\ apps' = [apps EXCEPT ![req[t].eng] = destroy_app(@)]
  /\ SetThread(t, "ret", Returned(req[t], 0))
  /\ UNCHANGED <<srw_alive, m_map, m_jobs, m_src_key, up, rt, nops, frames, errcode, stdack, ncalls>>

\* counters() as it would be if it returned an empty object
counters_empty(A) == EmptyMap

\* dnet_app_t::counters: the JSON object of the counters, keyed as m_counters is
counters(A) == A.m_counters

\* the text Json::StyledWriter writes for the info document
JsonText(doc) == <<doc>>

\* info: lookup and counters under the lock, then the reply frame SPH || event || json
\* with event_size, data_size and addr filled in, sent as a final reply
Info(t) ==
  /\ last' = NoOp
  /\ pc[t] = "info"
  /\ m_lock = 0
  /\ IF req[t].app \notin DOMAIN m_map
       THEN SetThread(t, "ret", Returned(req[t], -ENOENT))
       ELSE LET event == dnet_get_event(req[t].sph, Bytes(req[t]))
                info == [counters |-> counters(apps[m_map[req[t].app]])]
                text == JsonText(info)
                hdr == [data_size |-> Len(text), event_size |-> Len(event), flags |-> {},
                        src_key |-> 0, src |-> "", addr |-> NodeAddr]
                tmp == Buf(hdr, event, text)
                sent == [type |-> "reply", more |-> FALSE, err |-> 0,
                         cmd_flags |-> req[t].cmd.flags, buf |-> tmp,
                         size |-> sizeof_sph + Len(event) + Len(text), st |-> TRUE, by |-> "info"]
            IN SetThread(t, "ret", [Returned(req[t], 0) EXCEPT !.out = <<sent>>])
  /\ UNCHANGED <<srw_alive, m_map, apps, m_jobs, m_src_key, m_lock, up, rt, nops,
                 frames, errcode, stdack, ncalls>>

\* the REPLY / FINISH branch as it would be if a missing job were passed over in silence
no_job_silent(r) == Returned(r, 0)

\* no job for the src_key of a REPLY / FINISH frame: return -ENOENT
no_job(r) == Returned(r, -ENOENT)

\* guard.unlock() as it would be if the lock were kept to the end of the branch
guard_unlock_late(t) == t

\* guard.unlock(): the holder of m_lock afterwards
guard_unlock(t) == 0

\* the REPLY / FINISH branch as it would be if it never erased the job entry
erase_never(jobs, key, final) == jobs

\* if (final) m_jobs.erase(it)
erase_if_final(jobs, key, final) == IF final THEN MapErase(jobs, key) ELSE jobs

\* REPLY / FINISH frame: the job is looked up (and erased on FINISH) and the
\* app's reply counter bumped, all under the lock
ReplyLock(t) ==
  /\ last' = NoOp
  /\ pc[t] = "reply"
  /\ m_lock = 0
  /\ LET key == req[t].sph.src_key
         final == "FINISH" \in req[t].sph.flags
         event == dnet_get_event(req[t].sph, Bytes(req[t]))
     IN IF key \notin DOMAIN m_jobs
          THEN /\ SetThread(t, "ret", no_job(req[t]))
               /\ UNCHANGED <<m_jobs, apps, m_lock>>
          ELSE /\ m_jobs' = erase_if_final(m_jobs, key, final)
               /\ m_lock' = guard_unlock(t)
               /\ apps' = IF req[t].app \in DOMAIN m_map
                            THEN [apps EXCEPT ![m_map[req[t].app]] = update(@, event, req[t].sph.flags)]
                            ELSE apps
               /\ SetThread(t, "forward", [req[t] EXCEPT !.upstream = m_jobs[key]])
  /\ UNCHANGED <<srw_alive, m_map, m_src_key, up, rt, nops, frames, errcode, stdack, ncalls>>

\* upstream->reply(final, sph, sizeof(sph) + event_size + data_size) with the lock
\* released, then the node address is copied into the inbound header and process returns
ReplyForward(t) ==
  /\ last' = NoOp
  /\ pc[t] = "forward"
  /\ up[req[t].upstream].m_lock = 0
  /\ LET u == req[t].upstream
         final == "FINISH" \in req[t].sph.flags
         buf == Buf(req[t].sph, req[t].event, req[t].data)
         size == sizeof_sph + req[t].sph.event_size + req[t].sph.data_size
         r == reply(up[u], frames[u], final, buf, size, "process")
     IN /\ SetThread(t, "ret", Returned([req[t] EXCEPT !.sph.addr = NodeAddr], 0))
        /\ UNCHANGED <<m_jobs, rt>>
        /\ ReleaseUpstreams([up EXCEPT ![u] = r.u], [frames EXCEPT ![u] = r.f])
  /\ UNCHANGED <<srw_alive, m_map, apps, m_src_key, m_lock, nops, errcode, stdack, ncalls>>

\* the user branch as it would be with the insert left until after enqueue
insert_job_late(jobs, sph, u) == jobs

\* if (sph->flags & DNET_SPH_FLAGS_SRC_BLOCK) m_jobs.insert(make_pair(src_key, upstream))
insert_job(jobs, sph, u) ==
  IF "SRC_BLOCK" \in sph.flags THEN MapInsert(jobs, sph.src_key, u) ELSE jobs

\* user event: under the lock the app is looked up, its counter bumped, the
\* upstream constructed and, for SRC_BLOCK, inserted into the job table
UserLock(t) ==
  /\ last' = NoOp
  /\ pc[t] = "user"
  /\ m_lock = 0
  /\ LET event == dnet_get_event(req[t].sph, Bytes(req[t]))
     IN IF req[t].app \notin DOMAIN m_map
          THEN /\ SetThread(t, "ret", Returned(req[t], -ENOENT))
               /\ UNCHANGED <<apps, up, m_jobs, m_lock>>
          ELSE LET a == m_map[req[t].app]
                   u == NewUpstream
               IN /\ apps' = [apps EXCEPT ![a] = update(@, event, req[t].sph.flags)]
                  /\ up' = [up EXCEPT ![u] = dnet_upstream_t(req[t].cmd,
                                                sph_wrapper(req[t].sph, Bytes(req[t])))]
                  /\ m_jobs' = insert_job(m_jobs, req[t].sph, u)
                  /\ m_lock' = guard_unlock(t)
                  /\ SetThread(t, "enqueue", [req[t] EXCEPT !.upstream = u, !.made = u, !.eng = a])
  /\ UNCHANGED <<srw_alive, m_map, m_src_key, rt, nops, frames, errcode, stdack, ncalls>>

\* the name a sharded request is enqueued under
QueueName(A, app, index) == A.m_id \o <<"-">> \o app \o <<"-">> \o lexical_cast(index)

\* the argument of get_index as it would be if the header's src_key were read at the call
shard_key_fresh(r) == r.sph.src_key

\* the argument of eng->get_index(src_key): the local saved before the overwrite
shard_key(r) == r.src_key

\* eng->get_index(src_key) and eng->enqueue(...); when enqueue raises the catch
\* block returns -EXFULL and the runtime keeps no reference to the upstream
UserEnqueue(t) ==
  /\ last' = NoOp
  /\ pc[t] = "enqueue"
  /\ LET a == req[t].eng
         u == req[t].upstream
         gi == get_index(apps[a], shard_key(req[t]))
         queue == IF gi.index = -1 THEN req[t].app ELSE QueueName(gi.a, req[t].app, gi.index)
         r1 == [req[t] EXCEPT !.queue = queue]
     IN \E ok \in BOOLEAN :
          IF ok
            THEN /\ rt' = [rt EXCEPT ![u] = "open"]
                 /\ SetThread(t, "write", r1)
                 /\ apps' = [apps EXCEPT ![a] = gi.a]
                 /\ UNCHANGED <<up, frames, m_jobs>>
            ELSE /\ rt' = rt
                 /\ m_jobs' = m_jobs
                 /\ m_map' = m_map
                 /\ SetThread(t, "ret", [Returned(r1, -EXFULL) EXCEPT !.raised = "enqueue"])
                 /\ ReleaseUpstreams(up, frames)
                 /\ ReleaseApps([apps EXCEPT ![a] = gi.a])
  /\ UNCHANGED <<srw_alive, m_map, m_src_key, m_lock, nops, errcode, stdack, ncalls>>

\* an exception of the try block as it would end without the catch in process:
\* it unwinds to dnet_cmd_exec_raw, which returns -EINVAL
Raise_uncaught(t, what) ==
  /\ UNCHANGED <<rt, m_jobs, m_map>>
  /\ SetThread(t, "ret", [Returned(req[t], -EINVAL) EXCEPT !.raised = what])
  /\ ReleaseUpstreams(up, frames)
  /\ ReleaseApps(apps)

\* process leaves the try block by an exception: -EXFULL, locals released
Raise(t, what) ==
  /\ UNCHANGED <<rt, m_jobs, m_map>>
  /\ SetThread(t, "ret", [Returned(req[t], -EXFULL) EXCEPT !.raised = what])
  /\ ReleaseUpstreams(up, frames)
  /\ ReleaseApps(apps)

\* the end of process as it would be if it cleared NEED_ACK for every user event
clear_need_ack_always(r) == [r EXCEPT !.cmd.flags = @ \ {"NEED_ACK"}]

\* the end of process: cmd->flags &= ~DNET_FLAGS_NEED_ACK for SRC_BLOCK
clear_need_ack(r) ==
  IF "SRC_BLOCK" \in r.sph.flags THEN [r EXCEPT !.cmd.flags = @ \ {"NEED_ACK"}] ELSE r

\* stream->write(sph, total_size(sph) + sizeof(struct sph)) and stream->close();
\* on success NEED_ACK is cleared for SRC_BLOCK and process returns 0
UserWrite(t) ==
  /\ last' = NoOp
  /\ pc[t] = "write"
  /\ \E outcome \in {"ok", "write", "close"} :
       IF outcome = "ok"
         THEN /\ UNCHANGED <<rt, m_jobs, m_map>>
              /\ SetThread(t, "ret",
                   Returned(clear_need_ack(req[t]), 0))
              /\ ReleaseUpstreams(up, frames)
              /\ ReleaseApps(apps)
         ELSE Raise(t, outcome)
  /\ UNCHANGED <<srw_alive, m_src_key, m_lock, nops, errcode, stdack, ncalls>>

\* the caller of dnet_cmd_exec_raw: the command is acked with the returned
\* code when NEED_ACK is still set on it
Return(t) ==
  /\ last' = NoOp
  /\ pc[t] = "ret"
  /\ stdack' = IF "NEED_ACK" \in req[t].cmd.flags /\ req[t].made # 0
                 THEN [stdack EXCEPT ![req[t].made] = @ + 1]
                 ELSE stdack
  /\ SetThread(t, "idle", NoReq)
  /\ UNCHANGED <<srw_alive, m_map, apps, m_jobs, m_src_key, m_lock, up, rt, nops,
                 frames, errcode, ncalls>>

\* ------------------------------------------------------------------ the runtime's stream callbacks
\* The runtime holds the upstream it was given by enqueue and serialises its
\* callbacks: write and error while the stream is open, then close once.
WorkerWrite(u, chunk) ==
  /\ last' = OpWrite(u, chunk)
  /\ rt[u] = "open"
  /\ up[u].m_lock = 0
  /\ nops < MaxOps
  /\ nops' = nops + 1
  /\ LET r == write(up[u], frames[u], chunk)
     IN /\ up' = [up EXCEPT ![u] = r.u]
        /\ frames' = [frames EXCEPT ![u] = r.f]
  /\ UNCHANGED <<srw_alive, m_map, apps, m_jobs, m_src_key, m_lock, rt, errcode, stdack, pc, req, ncalls>>

WorkerError(u, code) ==
  /\ last' = OpError(u, code)
  /\ rt[u] = "open"
  /\ nops < MaxOps
  /\ nops' = nops + 1
  /\ up' = [up EXCEPT ![u] = error(@, code)]
  /\ errcode' = [errcode EXCEPT ![u] = code]
  /\ UNCHANGED <<srw_alive, m_map, apps, m_jobs, m_src_key, m_lock, rt, frames, stdack, pc, req, ncalls>>

\* close(): reply(true, NULL, 0), with m_deleter still to be called
WorkerClose(u) ==
  /\ last' = NoOp
  /\ rt[u] = "open"
  /\ up[u].m_lock = 0
  /\ rt' = [rt EXCEPT ![u] = "closing"]
  /\ LET r == close(up[u], frames[u])
     IN /\ up' = [up EXCEPT ![u] = r.u]
        /\ frames' = [frames EXCEPT ![u] = r.f]
  /\ UNCHANGED <<srw_alive, m_map, apps, m_jobs, m_src_key, m_lock, nops, errcode, stdack, pc, req, ncalls>>

\* srw::complete_job on the job table
complete_job(jobs, w) ==
  IF w.sph.src_key \notin DOMAIN jobs THEN jobs ELSE MapErase(jobs, w.sph.src_key)

\* m_deleter(), the end of close(): srw::complete_job under the registry lock
WorkerDeleter(u) ==
  /\ last' = NoOp
  /\ rt[u] = "closing"
  /\ m_lock = 0
  /\ rt' = [rt EXCEPT ![u] = "closed"]
  /\ m_jobs' = complete_job(m_jobs, up[u].m_sph)
  /\ req' = req
  /\ ReleaseUpstreams(up, frames)
  /\ UNCHANGED <<srw_alive, m_map, apps, m_src_key, m_lock, nops, errcode, stdack, pc, ncalls>>

\* the runtime drops its reference to the upstream after close
WorkerRelease(u) ==
  /\ last' = NoOp
  /\ rt[u] = "closed"
  /\ rt' = [rt EXCEPT ![u] = "none"]
  /\ m_jobs' = m_jobs
  /\ req' = req
  /\ ReleaseUpstreams(up, frames)
  /\ UNCHANGED <<srw_alive, m_map, apps, m_src_key, m_lock, nops, errcode, stdack, pc, ncalls>>

\* the runtime drops its reference without a close(): the worker or its app went away
WorkerDrop(u) ==
  /\ last' = NoOp
  /\ rt[u] = "open"
  /\ rt' = [rt EXCEPT ![u] = "none"]
  /\ m_jobs' = m_jobs
  /\ req' = req
  /\ ReleaseUpstreams(up, frames)
  /\ UNCHANGED <<srw_alive, m_map, apps, m_src_key, m_lock, nops, errcode, stdack, pc, ncalls>>

\* ------------------------------------------------------------------ dnet_srw_cleanup
\* delete sr: the job table, the app map and the runtime context are destroyed,
\* n->srw = NULL.  The node has stopped its I/O threads before.
Cleanup ==
  /\ last' = NoOp
  /\ srw_alive
  /\ \A t \in Threads : pc[t] = "idle"
  /\ \A u \in UIds : rt[u] # "closing"
  /\ srw_alive' = FALSE
  /\ m_jobs' = EmptyMap
  /\ m_map' = EmptyMap
  /\ rt' = [u \in UIds |-> "none"]
  /\ req' = req
  /\ ReleaseUpstreams(up, frames)
  /\ ReleaseApps(apps)
  /\ UNCHANGED <<m_src_key, m_lock, nops, errcode, stdack, pc, ncalls>>

\* ------------------------------------------------------------------ specification
\* the steps of thread t inside dnet_cmd_exec_raw and its caller
ThreadStep(t) ==
  \/ StartLock(t)
  \/ StartRun(t)
  \/ StopLock(t)
  \/ StopRun(t)
  \/ Info(t)
  \/ ReplyLock(t)
  \/ ReplyForward(t)
  \/ UserLock(t)
  \/ UserEnqueue(t)
  \/ UserWrite(t)
  \/ Return(t)

\* every step but the runtime dropping a stream it never closed
NextClosing ==
  \/ \E t \in Threads, f \in InFrames : Call(t, f)
  \/ \E t \in Threads : ThreadStep(t)
  \/ \E u \in UIds, c \in Chunks : WorkerWrite(u, c)
  \/ \E u \in UIds, c \in ErrCodes : WorkerError(u, c)
  \/ \E u \in UIds : WorkerClose(u)
  \/ \E u \in UIds : WorkerDeleter(u)
  \/ \E u \in UIds : WorkerRelease(u)
  \/ Cleanup

Next ==
  \/ NextClosing
  \/ \E u \in UIds : WorkerDrop(u)

Spec == Init /\ [][Next]_vars

\* Every call runs to its return and every stream the runtime was given is
\* closed and released by the runtime; no call and no cleanup is ever forced.
FairSpec ==
  /\ Init
  /\ [][NextClosing]_vars
  /\ \A t \in Threads : WF_vars(ThreadStep(t))
  /\ \A u \in UIds : WF_vars(WorkerClose(u)) /\ WF_vars(WorkerDeleter(u)) /\ WF_vars(WorkerRelease(u))

\* ------------------------------------------------------------------ properties
\* a frame with terminal semantics: an ack, or a reply without more-to-follow
Terminal(f) == f.type = "ack" \/ (f.type = "reply" /\ ~f.more)

\* the number of terminal frames upstream u has emitted
NTerminal(u) == Cardinality({i \in 1..Len(frames[u]) : Terminal(frames[u][i])})

\* upstream u was constructed for a SRC_BLOCK request
Block(u) == up[u].st # "none" /\ "SRC_BLOCK" \in up[u].m_sph.sph.flags

\* C1: over its lifetime an upstream emits at most one terminal frame (send_ack,
\* or send_reply without more-to-follow), and an upstream of a SRC_BLOCK request
\* that has been destroyed has emitted exactly one.
C1_OneTerminal ==
  \A u \in UIds :
    /\ NTerminal(u) <= 1
    /\ (Block(u) /\ up[u].st = "dead") => NTerminal(u) = 1

\* C1 witness: a destroyed SRC_BLOCK upstream that emitted a data frame and then its
\* one terminal frame
C1_Witness ==
  \E u \in UIds :
    /\ Block(u) /\ up[u].st = "dead"
    /\ Len(frames[u]) >= 2
    /\ ~Terminal(frames[u][1])
    /\ NTerminal(u) = 1

\* C2: the client of a SRC_BLOCK request sees exactly one terminal acknowledgement,
\* counting the caller's standard ack and the upstream's terminal frame: never two.
C2_OneAckInAll ==
  \A u \in UIds : Block(u) => NTerminal(u) + stdack[u] <= 1

\* C4: m_completed is a one-way latch, and a completed upstream emits nothing more.
C4_Latch ==
  [][\A u \in UIds :
       up[u].m_completed => (up'[u].m_completed /\ frames'[u] = frames[u])]_vars

\* C4 witness: a well-formed write() has just been made on an upstream that was
\* completed already (a well-formed write never sets m_completed itself)
C4_Witness ==
  /\ last.op = "write"
  /\ last.chunk.type = "RAW"
  /\ up[last.u].m_completed
  /\ up[last.u].st = "live"

\* upstream u is the value of a job-table entry
InJobs(u) == \E k \in DOMAIN m_jobs : m_jobs[k] = u

\* C3: every entry inserted into the job table is eventually removed, given that
\* every call returns and that every stream the runtime was given is closed.
C3_NoLeak == \A u \in UIds : InJobs(u) ~> ~InJobs(u)

\* the event names and counter fields of the model
AllEvents == {f.event : f \in InFrames}
CounterFields == {"blocked", "nonblocked", "reply"}

\* the counter a frame with these flags is to bump
CounterFor(flags) ==
  IF flags \cap {"REPLY", "FINISH"} # {} THEN "reply"
  ELSE IF "SRC_BLOCK" \in flags THEN "blocked" ELSE "nonblocked"

\* this step adds one to counter fld of (a, e) and changes no other counter
BumpedOne(a, e, fld) ==
  \A a2 \in AIds, e2 \in AllEvents, f2 \in CounterFields :
    CounterOf(apps'[a2].m_counters, e2)[f2] =
      CounterOf(apps[a2].m_counters, e2)[f2] + (IF a2 = a /\ e2 = e /\ f2 = fld THEN 1 ELSE 0)

\* this step changes no counter
CountersSame ==
  \A a2 \in AIds, e2 \in AllEvents, f2 \in CounterFields :
    CounterOf(apps'[a2].m_counters, e2)[f2] = CounterOf(apps[a2].m_counters, e2)[f2]

\* thread t's step processes a user event, or a REPLY/FINISH frame of a known job,
\* against a registered app: the lookup in the registry is reached and finds the app
UserProcessed(t) == pc[t] = "user" /\ pc'[t] # "user" /\ req[t].app \in DOMAIN m_map
ReplyProcessed(t) ==
  /\ pc[t] = "reply" /\ pc'[t] # "reply"
  /\ req[t].sph.src_key \in DOMAIN m_jobs
  /\ req[t].app \in DOMAIN m_map

\* C5: a frame processed against a registered app A with event name E and flags F
\* bumps exactly one counter of (A, E) by one (reply if F has REPLY or FINISH, else
\* blocked if F has SRC_BLOCK, else nonblocked) and changes no other counter of any
\* app or event; a step that processes no such frame changes no counter, so no
\* increment is lost or overwritten by a concurrent call.
C5_Counters ==
  [][/\ \A t \in Threads :
          (UserProcessed(t) \/ ReplyProcessed(t))
            => BumpedOne(m_map[req[t].app], req[t].event, CounterFor(req[t].sph.flags))
     /\ (~ \E t \in Threads : UserProcessed(t) \/ ReplyProcessed(t)) => CountersSame]_vars

\* C5 witness: one SRC_BLOCK user event and one REPLY frame carrying SRC_BLOCK as well
\* have been counted: blocked 1, reply 1
C5_Witness ==
  \E a \in AIds, e \in AllEvents :
    /\ CounterOf(apps[a].m_counters, e).blocked = 1
    /\ CounterOf(apps[a].m_counters, e).reply = 1
    /\ \E t \in Threads : pc[t] = "forward" /\ "SRC_BLOCK" \in req[t].sph.flags

\* a chunk write() accepts
ValidChunk(c) == c.rv \in {"UNPACK_SUCCESS", "UNPACK_EXTRA_BYTES"} /\ c.type = "RAW"

\* the buffer of the data frame for a chunk: captured SPH, event name, payload,
\* event_size the length of the event name, data_size that of the payload
WriteBuf(U, c) ==
  [ptr |-> TRUE,
   sph |-> [data_size |-> Len(c.raw), event_size |-> Len(U.m_sph.event),
            flags |-> U.m_sph.sph.flags, src_key |-> U.m_sph.sph.src_key,
            src |-> U.m_sph.sph.src, addr |-> U.m_sph.sph.addr],
   event |-> U.m_sph.event, data |-> c.raw]

HasTerminal(F) == \E i \in 1..Len(F) : Terminal(F[i])
WriteStep(u) == last'.op = "write" /\ last'.u = u
ForwardStep(t, u) == pc[t] = "forward" /\ pc'[t] = "ret" /\ req[t].upstream = u
DataFrame(x, buf) == x.type = "reply" /\ x.more /\ x.buf = buf

\* C6 as claimed: every non-terminal frame of a SRC_BLOCK upstream is the frame of a
\* well-formed worker write: captured SPH, event name, payload, sizes patched.
C6_Original ==
  \A u \in UIds : Block(u) =>
    \A i \in 1..Len(frames[u]) :
      ~Terminal(frames[u][i]) => \E c \in Chunks : ValidChunk(c) /\ DataFrame(frames[u][i], WriteBuf(up[u], c))

\* C6 as amended: the frames of a SRC_BLOCK upstream only grow at the end, and not
\* after a terminal frame; before it, a well-formed write appends exactly its data
\* frame and a REPLY frame forwarded by process appends exactly that frame, whole;
\* no other step appends a non-terminal frame.
C6_Frames ==
  [][\A u \in UIds : Block(u) =>
       LET F == frames[u]
           F2 == frames'[u]
       IN /\ F2 = F \/ (Len(F2) = Len(F) + 1 /\ SubSeq(F2, 1, Len(F)) = F)
          /\ HasTerminal(F) => F2 = F
          /\ (WriteStep(u) /\ ValidChunk(last'.chunk) /\ ~HasTerminal(F))
               => (Len(F2) = Len(F) + 1 /\ DataFrame(F2[Len(F2)], WriteBuf(up[u], last'.chunk)))
          /\ \A t \in Threads :
               (ForwardStep(t, u) /\ "FINISH" \notin req[t].sph.flags /\ ~HasTerminal(F))
                 => (Len(F2) = Len(F) + 1
                     /\ DataFrame(F2[Len(F2)], Buf(req[t].sph, req[t].event, req[t].data)))
          /\ (F2 # F /\ ~Terminal(F2[Len(F2)]))
               => \/ WriteStep(u) /\ ValidChunk(last'.chunk)
                  \/ \E t \in Threads : ForwardStep(t, u) /\ "FINISH" \notin req[t].sph.flags]_vars

\* C6 witness: a data frame of a write, a forwarded REPLY frame and the terminal frame,
\* in this order
C6_Witness ==
  \E u \in UIds :
    /\ Block(u)
    /\ Len(frames[u]) = 3
    /\ frames[u][1].by = "write" /\ ~Terminal(frames[u][1]) /\ frames[u][1].buf.data = <<"8", "8">>
    /\ frames[u][2].by = "process" /\ ~Terminal(frames[u][2])
    /\ Terminal(frames[u][3])

\* C7: the terminal frame write() emits for a chunk it cannot accept carries EINVAL.
C7_Einval ==
  \A u \in UIds : Block(u) =>
    \A i \in 1..Len(frames[u]) :
      (frames[u][i].by = "write" /\ Terminal(frames[u][i]))
        => (up[u].m_completed /\ frames[u][i].err \in {EINVAL, -EINVAL})

\* C8: error() emits nothing and does not latch; close() on a SRC_BLOCK upstream not
\* yet completed emits the terminal ack with the negation of the last code passed to
\* error() (0 if none), and the deleter then runs: the job entry is gone.
C8_ErrorThenClose ==
  [][/\ last'.op = "error"
          => (frames' = frames /\ \A u \in UIds : up'[u].m_completed = up[u].m_completed)
     /\ \A u \in UIds :
          /\ (rt[u] = "open" /\ rt'[u] = "closing" /\ Block(u) /\ ~up[u].m_completed)
               => /\ Len(frames'[u]) = Len(frames[u]) + 1
                  /\ SubSeq(frames'[u], 1, Len(frames[u])) = frames[u]
                  /\ frames'[u][Len(frames'[u])].type = "ack"
                  /\ frames'[u][Len(frames'[u])].err = -errcode[u]
          /\ (rt[u] = "closing" /\ rt'[u] # "closing")
               => (rt'[u] = "closed" /\ up[u].m_sph.sph.src_key \notin DOMAIN m_jobs')]_vars

\* C8 witness: two error() calls, the last with code 7, then close(): an ack with -7,
\* and the deleter has run
C8_Witness ==
  \E u \in UIds :
    /\ Block(u)
    /\ nops = 2
    /\ rt[u] = "closed"
    /\ errcode[u] = 7
    /\ frames[u] # <<>>
    /\ frames[u][1].by = "close" /\ frames[u][1].type = "ack" /\ frames[u][1].err = -7

\* C9: the terminal ack an upstream sends from its destructor carries a non-zero
\* error code, and is sent while the connection reference is still held.
C9_NonZero ==
  \A u \in UIds : Block(u) =>
    \A i \in 1..Len(frames[u]) :
      frames[u][i].by = "dtor" => (frames[u][i].st /\ frames[u][i].err # 0)

\* the frame of call r is a user event: an event name with '@', a method that is no
\* control verb, neither REPLY nor FINISH set
UserEvent(r) ==
  /\ strchr(r.event, "@") # 0
  /\ r.ev \notin {M_start, M_start_multiple, M_stop, M_info}
  /\ r.sph.flags \cap {"REPLY", "FINISH"} = {}

\* C10: when process has returned, NEED_ACK is cleared on the command iff the frame was
\* a SRC_BLOCK user event on a registered app and enqueue, write and close all succeeded.
C10_NeedAck ==
  \A t \in Threads :
    pc[t] = "ret" =>
      (("NEED_ACK" \notin req[t].cmd.flags)
         <=> (UserEvent(req[t]) /\ "SRC_BLOCK" \in req[t].sph.flags
              /\ req[t].made # 0 /\ req[t].raised = "none"))

\* C10 witness: a call has returned with NEED_ACK cleared
C10_Witness ==
  \E t \in Threads : pc[t] = "ret" /\ "NEED_ACK" \notin req[t].cmd.flags /\ req[t].err = 0

\* thread t's start-task / start-multiple-task step inserts its app into the registry
StartInserted(t) ==
  /\ pc[t] = "starting" /\ pc'[t] = "ret"
  /\ req[t].app \notin DOMAIN m_map
  /\ req[t].app \in DOMAIN m_map'

\* an earlier app object of that name was registered, used and destroyed
HadState(A) == A.st = "dead" /\ (A.m_pool_size # -1 \/ A.m_id # DefaultId \/ A.m_counters # EmptyMap)

\* C11: whatever was registered, used and stopped under the name before, the entry a
\* start-task inserts is a fresh app: no counters, pool size unset (-1), task id
\* "default", shard index at its initial value 1, started.
C11_FreshApp ==
  [][\A t \in Threads :
       (StartInserted(t) /\ req[t].ev = M_start)
         => LET A == apps'[m_map'[req[t].app]]
            IN /\ A.st = "live" /\ A.m_started
               /\ A.m_counters = EmptyMap
               /\ A.m_pool_size = -1
               /\ A.m_id = DefaultId
               /\ A.m_sph_index = 1]_vars

\* C11 witness: app c is registered afresh while an earlier object, started by
\* start-multiple-task with pool size and task id and stopped since, is dead
C11_Witness ==
  /\ <<"c">> \in DOMAIN m_map
  /\ apps[m_map[<<"c">>]].m_pool_size = -1
  /\ apps[m_map[<<"c">>]].m_id = DefaultId
  /\ \E b \in AIds : b < m_map[<<"c">>] /\ HadState(apps[b]) /\ apps[b].m_id = <<"T">>

\* the app object a stop-task step of thread t takes out of the registry
StoppedBy(t) ==
  IF pc[t] = "stop"
    THEN IF req[t].app \in DOMAIN m_map THEN {m_map[req[t].app]} ELSE {}
    ELSE {req[t].eng}

Registered(a) == \E n \in DOMAIN m_map : m_map[n] = a
HeldByThread(a) == \E t \in Threads : req[t].eng = a

C13_IdleFloor ==
  [][\A t \in Threads :
       /\ (pc[t] = "starting" /\ pc'[t] = "ret" /\ req[t].ev = M_start_multiple
           /\ req'[t].raised = "none")
            => LET p == req'[t].profile
               IN IF p.idle_timeout # 0 /\ p.idle_timeout < 2592000
                    THEN /\ req'[t].err = -EINVAL
                         /\ m_map' = m_map
                         /\ req[t].app \notin DOMAIN m_map'
                    ELSE /\ req'[t].err = 0
                         /\ req[t].app \in DOMAIN m_map'
                         /\ apps'[m_map'[req[t].app]].m_pool_size = p.pool_limit
       /\ (pc[t] = "user" /\ pc'[t] # "user" /\ req[t].app \notin DOMAIN m_map)
            => (pc'[t] = "ret" /\ req'[t].err = -ENOENT)]_vars

\* C13 witness: a start-multiple-task was refused for its idle-timeout of 60 and a
\* user event on the same app got ENOENT
C13_Witness ==
  \E t1, t2 \in Threads :
    /\ pc[t1] = "ret" /\ req[t1].ev = M_start_multiple /\ req[t1].err = -EINVAL
    /\ req[t1].raised = "none" /\ req[t1].profile.idle_timeout = 60
    /\ pc[t2] = "ret" /\ req[t2].ev = M_user /\ req[t2].app = req[t1].app
    /\ req[t2].err = -ENOENT
    /\ <<"c">> \notin DOMAIN m_map

\* C13 witness of the other side is part of the same claim: idle-timeout at the floor
C13_WitnessFloor ==
  \E t \in Threads :
    /\ pc[t] = "ret" /\ req[t].ev = M_start_multiple /\ req[t].err = 0
    /\ req[t].profile.idle_timeout = idle_min
    /\ req[t].app \in DOMAIN m_map /\ apps[m_map[req[t].app]].m_pool_size = 3

\* ------------------------------------------------------------------ get_index on its own
\* pool sizes and src_key values get_index is applied to
PoolSizes == 1..4
ShardKeys == {-1, 0, 1, 2, 3, 5, 7}

\* app c registered by start-multiple-task with a pool-limit from PoolSizes
ShardInit ==
  /\ srw_alive = TRUE
  /\ m_map = [n \in {<<"c">>} |-> 1]
  /\ \E N \in PoolSizes :
       apps = [a \in AIds |-> IF a = 1 THEN set_pool_size(start(dnet_app_t), N) ELSE NoApp]
  /\ m_jobs = EmptyMap
  /\ m_src_key = 1
  /\ m_lock = 0
  /\ up = [u \in UIds |-> NoUpstream]
  /\ rt = [u \in UIds |-> "none"]
  /\ nops = 0
  /\ frames = [u \in UIds |-> <<>>]
  /\ last = NoOp
  /\ errcode = [u \in UIds |-> 0]
  /\ stdack = [u \in UIds |-> 0]
  /\ pc = [t \in Threads |-> "idle"]
  /\ req = [t \in Threads |-> NoReq]
  /\ ncalls = 0

\* one call eng->get_index(k); the increment inside it is atomic, so concurrent calls
\* are calls in some order
GetIndex(k) ==
  /\ apps[1].m_sph_index < MaxIndex
  /\ LET gi == get_index(apps[1], k)
     IN /\ apps' = [apps EXCEPT ![1] = gi.a]
        /\ last' = OpIndex(1, k, gi.index)
  /\ UNCHANGED <<srw_alive, m_map, m_jobs, m_src_key, m_lock, up, rt, nops, frames,
                 errcode, stdack, pc, req, ncalls>>

ShardNext == \E k \in ShardKeys : GetIndex(k)

ShardSpec == ShardInit /\ [][ShardNext]_vars

\* C14: with pool size N > 0, get_index(k) for k >= 0 returns k mod N and leaves the
\* app's shard index alone; each call with k = -1 raises the shard index by one, and
\* of two calls with k = -1 in a row the second returns the first's index plus one,
\* modulo N, so N such calls in a row return N distinct indices in 0..N-1.
C14_ShardIndex ==
  [][last'.op = "get_index" =>
       LET N == apps[1].m_pool_size
           k == last'.code
           i == last'.index
       IN /\ N > 0
          /\ i \in 0..(N - 1)
          /\ k >= 0 => (i = k % N /\ apps'[1].m_sph_index = apps[1].m_sph_index)
          /\ k = -1 => apps'[1].m_sph_index = apps[1].m_sph_index + 1
          /\ (k = -1 /\ last.op = "get_index" /\ last.code = -1)
               => i = (last.index + 1) % N]_vars

\* C14 witness: pool size 3, three calls with k = -1 made, the last returned 4 mod 3
C14_Witness ==
  /\ apps[1].m_pool_size = 3
  /\ apps[1].m_sph_index = 4
  /\ last.op = "get_index" /\ last.code = -1 /\ last.index = 1

\* thread t's step is the start of a call
Entered(t) == pc[t] = "idle" /\ pc'[t] # "idle"

\* C15: process on a frame whose event name has no '@' returns -EINVAL and changes
\* neither the registry, nor the job table, nor any app (its counters), nor the
\* src_key counter, and emits nothing.
C15_NoAtSign ==
  [][\A t \in Threads :
       (Entered(t) /\ srw_alive /\ ~ \E i \in 1..Len(req'[t].event) : req'[t].event[i] = "@")
         => /\ pc'[t] = "ret" /\ req'[t].err = -EINVAL
            /\ m_map' = m_map /\ m_jobs' = m_jobs /\ apps' = apps
            /\ m_src_key' = m_src_key
            /\ frames' = frames /\ req'[t].out = <<>>]_vars

\* C15 witness: a frame with event name "n", SRC_BLOCK and FINISH set, got -EINVAL
\* while an app is registered
C15_Witness ==
  \E t \in Threads :
    /\ pc[t] = "ret" /\ req[t].event = <<"n">> /\ "SRC_BLOCK" \in req[t].sph.flags
    /\ req[t].err = -EINVAL
    /\ m_map # EmptyMap

\* C16: a REPLY / FINISH frame with a user method whose src_key has no job-table
\* entry returns -ENOENT, emits nothing, changes no counter and leaves the job table
\* as it is.
C16_NoJob ==
  [][\A t \in Threads :
       (pc[t] = "reply" /\ pc'[t] # "reply" /\ req[t].sph.src_key \notin DOMAIN m_jobs)
         => /\ pc'[t] = "ret" /\ req'[t].err = -ENOENT
            /\ frames' = frames /\ req'[t].out = <<>>
            /\ apps' = apps
            /\ m_jobs' = m_jobs]_vars

\* C16 witness: a REPLY frame for src_key 2 got -ENOENT with its app registered and
\* the job table empty
C16_Witness ==
  \E t \in Threads :
    /\ pc[t] = "ret" /\ "REPLY" \in req[t].sph.flags /\ req[t].err = -ENOENT
    /\ req[t].app \in DOMAIN m_map
    /\ m_jobs = EmptyMap

\* the method of an event name: what follows the first '@'
Method(e) == SubSeq(e, strchr(e, "@") + 1, Len(e))

\* thread t's step is the info branch of process
InfoStep(t) == pc[t] = "info" /\ pc'[t] = "ret"

\* the one frame an info request emits: a final reply with event name and JSON text
InfoReply(r) ==
  /\ Len(r.out) = 1
  /\ r.out[1].type = "reply" /\ ~r.out[1].more
  /\ r.out[1].buf.event = r.event
  /\ r.out[1].buf.sph.event_size = Len(r.event)
  /\ r.out[1].buf.sph.data_size = Len(r.out[1].buf.data)

\* the JSON document of an info reply
InfoDoc(r) == r.out[1].buf.data[1]

\* C17 as claimed: info on a registered app emits one final reply whose counters are
\* keyed by the method names of the user events and carry the app's numbers for them;
\* info changes no counter; on an unregistered app it returns -ENOENT and emits nothing.
C17_Original ==
  [][\A t \in Threads : InfoStep(t) =>
       /\ apps' = apps
       /\ IF req[t].app \in DOMAIN m_map
            THEN LET C == apps[m_map[req[t].app]].m_counters
                     doc == InfoDoc(req'[t]).counters
                 IN /\ req'[t].err = 0 /\ InfoReply(req'[t])
                    /\ DOMAIN doc = {Method(e) : e \in DOMAIN C}
                    /\ \A e \in DOMAIN C : doc[Method(e)] = C[e]
            ELSE req'[t].err = -ENOENT /\ req'[t].out = <<>>]_vars

\* C17 as amended: info on a registered app emits one final reply whose counters are
\* keyed by the whole event names ("app@method") of the user events processed and
\* carry the app's blocked, nonblocked and reply numbers for them; info changes no
\* counter; on an unregistered app it returns -ENOENT and emits nothing.
C17_InfoCounters ==
  [][\A t \in Threads : InfoStep(t) =>
       /\ apps' = apps
       /\ IF req[t].app \in DOMAIN m_map
            THEN LET C == apps[m_map[req[t].app]].m_counters
                     doc == InfoDoc(req'[t]).counters
                 IN /\ req'[t].err = 0 /\ InfoReply(req'[t])
                    /\ DOMAIN doc = DOMAIN C
                    /\ \A e \in DOMAIN C :
                         /\ doc[e].blocked = CounterOf(C, e).blocked
                         /\ doc[e].nonblocked = CounterOf(C, e).nonblocked
                         /\ doc[e].reply = CounterOf(C, e).reply
            ELSE req'[t].err = -ENOENT /\ req'[t].out = <<>>]_vars

\* C17 witness: info has returned the counters of c after one SRC_BLOCK event c@q
C17_Witness ==
  \E t \in Threads :
    /\ pc[t] = "ret" /\ req[t].ev = M_info /\ req[t].err = 0
    /\ Len(req[t].out) = 1
    /\ DOMAIN InfoDoc(req[t]).counters = {<<"c", "@", "q">>}
    /\ InfoDoc(req[t]).counters[<<"c", "@", "q">>] = [blocked |-> 1, nonblocked |-> 0, reply |-> 0]

\* C18: an exception of enqueue, of the request stream's write or of its close ends the
\* call with -EXFULL, an exception of the app's start or of the profile load ends it
\* with -EINVAL, a call after dnet_srw_cleanup (no srw object) ends with -ENOTSUP; in
\* each case the call returns a code, and the registry lock is held only by a thread
\* inside the start-task or stop-task branch.
C18_Exceptions ==
  /\ \A t \in Threads :
       pc[t] = "ret" =>
         /\ req[t].raised \in {"enqueue", "write", "close"} => req[t].err = -EXFULL
         /\ req[t].raised \in {"start", "storage"} => req[t].err = -EINVAL
         /\ ~srw_alive => req[t].err = -ENOTSUP
  /\ \A t \in Threads : req[t].raised # "none" => pc[t] = "ret"
  /\ m_lock # 0 => pc[m_lock] \in {"starting", "stopping"}

\* C18 witness: the close of the request stream raised and the call returned -EXFULL
\* with the lock free
C18_Witness ==
  \E t \in Threads :
    /\ pc[t] = "ret" /\ req[t].raised = "close" /\ req[t].err = -EXFULL
    /\ m_lock = 0

\* ------------------------------------------------------------------ SRC_BLOCK requests only
\* the SRC_BLOCK user event and the chunk of this specification
KeyFrames == { f \in UserFrames : "SRC_BLOCK" \in f.sph.flags }
KeyChunk == [rv |-> "UNPACK_SUCCESS", type |-> "RAW", raw |-> <<"9">>]

\* the state after one start-task of app c has returned
KeyInit ==
  /\ srw_alive = TRUE
  /\ m_map = [n \in {<<"c">>} |-> 1]
  /\ apps = [a \in AIds |-> IF a = 1 THEN start(dnet_app_t) ELSE NoApp]
  /\ m_jobs = EmptyMap
  /\ m_src_key = 1
  /\ m_lock = 0
  /\ up = [u \in UIds |-> NoUpstream]
  /\ rt = [u \in UIds |-> "none"]
  /\ nops = 0
  /\ frames = [u \in UIds |-> <<>>]
  /\ last = NoOp
  /\ errcode = [u \in UIds |-> 0]
  /\ stdack = [u \in UIds |-> 0]
  /\ pc = [t \in Threads |-> "idle"]
  /\ req = [t \in Threads |-> NoReq]
  /\ ncalls = 1

\* an upstream id is left for one more SRC_BLOCK request
UpstreamsLeftKey ==
  Cardinality({u \in UIds : up[u].st # "none"}) + Cardinality({t \in Threads : pc[t] = "user"}) < MaxUpKey

\* a call of dnet_cmd_exec_raw with a SRC_BLOCK user event
KeyCall(t, f) ==
  /\ ncalls < MaxCalls
  /\ UpstreamsLeftKey
  /\ Exec(t, f)

KeyNext ==
  \/ \E t \in Threads, f \in KeyFrames : KeyCall(t, f)
  \/ \E t \in Threads : UserLock(t)
  \/ \E t \in Threads : UserEnqueue(t)
  \/ \E t \in Threads : UserWrite(t)
  \/ \E t \in Threads : Return(t)
  \/ \E u \in UIds : WorkerWrite(u, KeyChunk)
  \/ \E u \in UIds : WorkerClose(u)
  \/ \E u \in UIds : WorkerDeleter(u)
  \/ \E u \in UIds : WorkerRelease(u)

KeySpec == KeyInit /\ [][KeyNext]_vars

\* thread t is in the user branch with a SRC_BLOCK request
BlockCall(t) == pc[t] \in {"user", "enqueue", "write"} /\ "SRC_BLOCK" \in req[t].sph.flags

\* C19: a SRC_BLOCK user request gets, before enqueue, the next value of the src_key
\* counter, which starts at 1 and only grows, in its header and the command's id in
\* src; the value differs from the key of every other request in flight and of every
\* upstream made before, so it is not in the job table when it is inserted; the
\* upstream captures the header with the fresh key and the id, and every data frame
\* it writes carries them.
C19_FreshKeys ==
  [][/\ m_src_key >= 1 /\ m_src_key' >= m_src_key
     /\ \A t \in Threads :
          (Entered(t) /\ pc'[t] = "user" /\ "SRC_BLOCK" \in req'[t].sph.flags)
            => /\ m_src_key' > m_src_key
               /\ req'[t].sph.src_key = m_src_key'
               /\ req'[t].sph.src = req'[t].cmd.id
               /\ req'[t].sph.src_key \notin DOMAIN m_jobs
               /\ \A u \in UIds : up[u].st # "none" => up[u].m_sph.sph.src_key # req'[t].sph.src_key
               /\ \A o \in Threads \ {t} : BlockCall(o) => req[o].sph.src_key # req'[t].sph.src_key
     /\ \A t \in Threads :
          (pc[t] = "user" /\ pc'[t] = "enqueue" /\ "SRC_BLOCK" \in req[t].sph.flags)
            => LET u == req'[t].upstream
                   key == req[t].sph.src_key
               IN /\ key \notin DOMAIN m_jobs
                  /\ key \in DOMAIN m_jobs' /\ m_jobs'[key] = u
                  /\ up'[u].m_sph.sph.src_key = key
                  /\ up'[u].m_sph.sph.src = req[t].cmd.id
     /\ \A u \in UIds : \A i \in 1..Len(frames'[u]) :
          ("SRC_BLOCK" \in up'[u].m_sph.sph.flags /\ frames'[u][i].by = "write"
           /\ frames'[u][i].buf.ptr)
            => /\ frames'[u][i].buf.sph.src_key = up'[u].m_sph.sph.src_key
               /\ frames'[u][i].buf.sph.src = up'[u].m_cmd.id]_vars

\* C19 witness: two SRC_BLOCK requests are in the job table under the keys 2 and 3,
\* and the upstream of the second has written a data frame with key 3
C19_Witness ==
  /\ DOMAIN m_jobs = {2, 3}
  /\ m_jobs[2] # m_jobs[3]
  /\ up[m_jobs[3]].m_sph.sph.src_key = 3
  /\ frames[m_jobs[3]] # <<>>
  /\ frames[m_jobs[3]][1].buf.sph.src_key = 3

\* C20: the step that takes a SRC_BLOCK request to enqueue has put its fresh src_key
\* into the job table, before the runtime has the upstream; until enqueue returns only
\* a FINISH frame for that key takes the entry out; and a REPLY or FINISH frame for the
\* key that another thread processes while the entry is there, during enqueue or
\* after it, finds the request's upstream.
C20_InsertBeforeEnqueue ==
  [][\A t \in Threads :
       LET key == req[t].sph.src_key
       IN /\ (pc[t] = "user" /\ pc'[t] = "enqueue" /\ "SRC_BLOCK" \in req[t].sph.flags)
               => /\ key \in DOMAIN m_jobs'
                  /\ m_jobs'[key] = req'[t].upstream
                  /\ rt'[req'[t].upstream] = "none"
          /\ (pc[t] = "enqueue" /\ "SRC_BLOCK" \in req[t].sph.flags
              /\ key \in DOMAIN m_jobs /\ key \notin DOMAIN m_jobs')
               => \E o \in Threads \ {t} :
                    /\ pc[o] = "reply" /\ pc'[o] = "forward"
                    /\ req[o].sph.src_key = key /\ "FINISH" \in req[o].sph.flags
          /\ (pc[t] \in {"enqueue", "write"} /\ "SRC_BLOCK" \in req[t].sph.flags
              /\ key \in DOMAIN m_jobs)
               => /\ m_jobs[key] = req[t].upstream
                  /\ \A o \in Threads \ {t} :
                       (pc[o] = "reply" /\ pc'[o] # "reply" /\ req[o].sph.src_key = key)
                         => (pc'[o] = "forward" /\ req'[o].upstream = req[t].upstream)]_vars

\* C20 witness: enqueue of a SRC_BLOCK request has not returned, and the other thread
\* has found its upstream for a REPLY frame
C20_Witness ==
  \E t, o \in Threads :
    /\ pc[t] = "enqueue" /\ "SRC_BLOCK" \in req[t].sph.flags
    /\ rt[req[t].upstream] = "none"
    /\ pc[o] = "forward" /\ "REPLY" \in req[o].sph.flags
    /\ req[o].upstream = req[t].upstream

\* ------------------------------------------------------------------ REPLY / FINISH frames against a job
\* REPLY and FINISH frames for src_key 2 that name the registered app c or the app v,
\* which is not registered
ReplyKeyFrames ==
  { Frame(a \o At \o M_user, f, 2, <<"r">>) : a \in AppNames, f \in {{"REPLY"}, {"FINISH"}} }

\* a call of dnet_cmd_exec_raw with a SRC_BLOCK user event or a REPLY / FINISH frame
ReplyCall(t, f) ==
  /\ ncalls < MaxCalls
  /\ f \in KeyFrames => UpstreamsLeft
  /\ Exec(t, f)

ReplyNext ==
  \/ \E t \in Threads, f \in KeyFrames \cup ReplyKeyFrames : ReplyCall(t, f)
  \/ \E t \in Threads : UserLock(t)
  \/ \E t \in Threads : UserEnqueue(t)
  \/ \E t \in Threads : UserWrite(t)
  \/ \E t \in Threads : ReplyLock(t)
  \/ \E t \in Threads : ReplyForward(t)
  \/ \E t \in Threads : Return(t)
  \/ \E u \in UIds : WorkerWrite(u, KeyChunk)
  \/ \E u \in UIds : WorkerClose(u)
  \/ \E u \in UIds : WorkerDeleter(u)
  \/ \E u \in UIds : WorkerRelease(u)

\* app c started by one start-task, then SRC_BLOCK requests and REPLY / FINISH frames
ReplySpec == KeyInit /\ [][ReplyNext]_vars

\* thread t's step finds the job of its REPLY / FINISH frame under the lock
JobFound(t) == pc[t] = "reply" /\ pc'[t] # "reply" /\ req[t].sph.src_key \in DOMAIN m_jobs

\* the frame reply() sends for the inbound frame of call r: the frame whole, header
\* as it arrived, event name and data, of size sizeof(sph) + event_size + data_size
Forwarded(x, r) ==
  /\ x.type = "reply" /\ x.by = "process"
  /\ x.more = ("FINISH" \notin r.sph.flags)
  /\ x.buf = Buf(r.sph, r.event, r.data)
  /\ x.size = sizeof_sph + r.sph.event_size + r.sph.data_size

\* C21: a REPLY / FINISH frame whose src_key is in the job table reaches the reply of
\* that entry's upstream, whether its app is registered or not: under the lock the entry
\* is erased for FINISH and kept for REPLY, and the reply counter of (app, event) is
\* bumped iff the app is registered; then an upstream not yet completed sends the frame
\* whole, non-terminal for REPLY, terminal (and latching) for FINISH, and the call
\* returns 0.
C21_Forward ==
  [][\A t \in Threads :
       /\ JobFound(t)
            => LET key == req[t].sph.src_key
                   final == "FINISH" \in req[t].sph.flags
               IN /\ pc'[t] = "forward"
                  /\ req'[t].upstream = m_jobs[key]
                  /\ IF final
                       THEN key \notin DOMAIN m_jobs'
                       ELSE key \in DOMAIN m_jobs' /\ m_jobs'[key] = m_jobs[key]
                  /\ IF req[t].app \in DOMAIN m_map
                       THEN BumpedOne(m_map[req[t].app], req[t].event, "reply")
                       ELSE CountersSame
       /\ (pc[t] = "forward" /\ pc'[t] # "forward")
            => LET u == req[t].upstream
                   final == "FINISH" \in req[t].sph.flags
                   n == Len(frames[u])
               IN /\ pc'[t] = "ret" /\ req'[t].err = 0
                  /\ IF up[u].m_completed
                       THEN frames'[u] = frames[u]
                       ELSE /\ Len(frames'[u]) > n
                            /\ SubSeq(frames'[u], 1, n) = frames[u]
                            /\ Forwarded(frames'[u][n + 1], req[t])
                            /\ Terminal(frames'[u][n + 1]) = final
                            /\ up'[u].m_completed = final \/ up'[u].st = "dead"]_vars

\* C21 witness: a FINISH frame naming app v, which is not registered, was forwarded as
\* the terminal frame of the job of c's request after a data frame of the worker; the
\* entry is gone and no reply was counted
C21_Witness ==
  \E t \in Threads, u \in UIds :
    /\ pc[t] = "ret" /\ req[t].app = <<"v">> /\ "FINISH" \in req[t].sph.flags /\ req[t].err = 0
    /\ <<"v">> \notin DOMAIN m_map
    /\ Len(frames[u]) = 2
    /\ frames[u][1].by = "write"
    /\ Forwarded(frames[u][2], [req[t] EXCEPT !.sph.addr = PeerAddr]) /\ Terminal(frames[u][2])
    /\ m_jobs = EmptyMap
    /\ \A a \in AIds, e \in AllEvents \cup {f.event : f \in ReplyKeyFrames} :
         CounterOf(apps[a].m_counters, e).reply = 0

\* C21 witness of the other case: a REPLY frame naming the registered app c was
\* forwarded as a data frame, the entry stays and the reply was counted
C21_WitnessReply ==
  \E t \in Threads, u \in UIds :
    /\ pc[t] = "ret" /\ req[t].app = <<"c">> /\ req[t].sph.flags = {"REPLY"} /\ req[t].err = 0
    /\ frames[u] # <<>> /\ frames[u][Len(frames[u])].by = "process"
    /\ ~Terminal(frames[u][Len(frames[u])])
    /\ 2 \in DOMAIN m_jobs /\ m_jobs[2] = u
    /\ CounterOf(apps[m_map[<<"c">>]].m_counters, req[t].event).reply = 1

\* ------------------------------------------------------------------ routing of user events
\* caller-supplied src_key values: none (-1), and two the node's own keys never equal
RouteKeys == {-1, 0, 5}

\* user events on app c with a caller-supplied src_key
RouteFrames ==
  { Frame(<<"c">> \o At \o M_user, f, k, <<"x">>) : f \in {{}, {"SRC_BLOCK"}}, k \in RouteKeys }

\* app c registered by start-task, or by start-multiple-task with task id T and a
\* profile of Profiles that passes the idle check
RouteInit ==
  /\ srw_alive = TRUE
  /\ m_map = [n \in {<<"c">>} |-> 1]
  /\ \E A \in {start(dnet_app_t)}
            \cup { set_task_id(set_pool_size(start(dnet_app_t), p.pool_limit), <<"T">>) :
                     p \in {q \in Profiles : ~idle_rejected(q.idle_timeout)} } :
       apps = [a \in AIds |-> IF a = 1 THEN A ELSE NoApp]
  /\ m_jobs = EmptyMap
  /\ m_src_key = 1
  /\ m_lock = 0
  /\ up = [u \in UIds |-> NoUpstream]
  /\ rt = [u \in UIds |-> "none"]
  /\ nops = 0
  /\ frames = [u \in UIds |-> <<>>]
  /\ last = NoOp
  /\ errcode = [u \in UIds |-> 0]
  /\ stdack = [u \in UIds |-> 0]
  /\ pc = [t \in Threads |-> "idle"]
  /\ req = [t \in Threads |-> NoReq]
  /\ ncalls = 1

\* a call of dnet_cmd_exec_raw with a user event of RouteFrames
RouteCall(t, f) ==
  /\ ncalls < MaxCalls
  /\ UpstreamsLeftKey
  /\ Exec(t, f)

RouteNext ==
  \/ \E t \in Threads, f \in RouteFrames : RouteCall(t, f)
  \/ \E t \in Threads : UserLock(t)
  \/ \E t \in Threads : UserEnqueue(t)
  \/ \E t \in Threads : UserWrite(t)
  \/ \E t \in Threads : Return(t)

RouteSpec == RouteInit /\ [][RouteNext]_vars

\* thread t's step is get_index and enqueue
EnqueueStep(t) == pc[t] = "enqueue" /\ pc'[t] # "enqueue"

\* the shard of key k in a pool of N: k mod N, and for k = -1 the next of the app's
\* round-robin index mod N
ShardOf(A, k) ==
  IF k = -1 THEN (A.m_sph_index + 1) % A.m_pool_size ELSE k % A.m_pool_size

\* C22: the queue a user event is enqueued under is decided by the app and the src_key
\* the caller supplied: the plain app name when the pool size is unset, and otherwise
\* task_id-app-index with index the shard of the supplied key; for SRC_BLOCK the header
\* carries the fresh key by then, and the supplied one is kept aside for the shard.
C22_ShardFromOriginal ==
  [][\A t \in Threads :
       /\ (Entered(t) /\ pc'[t] = "user")
            => /\ req'[t].src_key \in RouteKeys
               /\ IF "SRC_BLOCK" \in req'[t].sph.flags
                    THEN req'[t].sph.src_key = m_src_key' /\ req'[t].sph.src_key \notin RouteKeys
                    ELSE req'[t].sph.src_key = req'[t].src_key
       /\ (pc[t] = "user" /\ pc'[t] = "enqueue") => req'[t].src_key = req[t].src_key
       /\ EnqueueStep(t)
            => LET A == apps[req[t].eng]
               IN req'[t].queue =
                    IF A.m_pool_size = -1
                      THEN req[t].app
                      ELSE A.m_id \o <<"-">> \o req[t].app \o <<"-">>
                             \o lexical_cast(ShardOf(A, req[t].src_key))]_vars

\* C22 witness: a SRC_BLOCK request that came with src_key 5 and carries the fresh key 2
\* was enqueued in a pool of 2 under T-c-1, the shard of 5 and not that of 2
C22_Witness ==
  \E t \in Threads :
    /\ pc[t] = "write" /\ "SRC_BLOCK" \in req[t].sph.flags
    /\ req[t].src_key = 5 /\ req[t].sph.src_key = 2
    /\ apps[req[t].eng].m_pool_size = 2
    /\ req[t].queue = <<"T", "-", "c", "-", "1">>

\* thread t is at a call into the runtime or into an upstream: enqueue, the request
\* stream's write and close, upstream->reply for a REPLY / FINISH frame
InRuntimeCall(t) == pc[t] \in {"enqueue", "write", "forward"}

\* C23: a thread that is at enqueue, at the write or close of the request stream, or at
\* upstream->reply for a REPLY / FINISH frame does not hold the registry lock.
C23_LockFreeCalls == \A t \in Threads : InRuntimeCall(t) => m_lock # t

\* C23 witness: one thread is at enqueue and the other at upstream->reply, both past
\* their locked sections, and the lock is free
C23_Witness ==
  \E t, o \in Threads :
    /\ pc[t] = "enqueue" /\ pc[o] = "forward"
    /\ req[t].made # 0 /\ req[o].upstream # 0
    /\ m_lock = 0

\* thread t is inside eng->start() or the profile load of start-multiple-task
InStart(t) == pc[t] = "starting"

\* C24: no blocking step of process runs under the registry lock: a thread that is
\* inside the runtime handle's start or the profile load storage("core").get of
\* start-task / start-multiple-task does not hold the lock.
C24_StartOutsideLock == \A t \in Threads : InStart(t) => m_lock # t

\* ------------------------------------------------------------------ reply() with its lock held over steps
\* the runtime thread that makes the callbacks of upstream u, as a holder of locks
RtThread(u) == 0 - u

\* close(): reply(true, NULL, 0) takes the upstream's lock
CloseEnter(u) ==
  /\ last' = NoOp
  /\ rt[u] = "open"
  /\ up[u].m_lock = 0
  /\ up' = [up EXCEPT ![u] = lock_upstream(@, RtThread(u))]
  /\ UNCHANGED <<srw_alive, m_map, apps, m_jobs, m_src_key, m_lock, rt, nops, frames,
                 errcode, stdack, pc, req, ncalls>>

\* close(): reply(true, NULL, 0) does its work and returns, m_deleter is still to be called
CloseLeave(u) ==
  /\ last' = NoOp
  /\ rt[u] = "open"
  /\ up[u].m_lock = RtThread(u)
  /\ rt' = [rt EXCEPT ![u] = "closing"]
  /\ LET r == close(up[u], frames[u])
     IN /\ up' = [up EXCEPT ![u] = unlock_upstream(r.u)]
        /\ frames' = [frames EXCEPT ![u] = r.f]
  /\ UNCHANGED <<srw_alive, m_map, apps, m_jobs, m_src_key, m_lock, nops, errcode, stdack,
                 pc, req, ncalls>>

\* upstream->reply(final, sph, size) of the REPLY / FINISH branch takes the upstream's lock
ForwardEnter(t) ==
  /\ last' = NoOp
  /\ pc[t] = "forward"
  /\ up[req[t].upstream].m_lock = 0
  /\ up' = [up EXCEPT ![req[t].upstream] = lock_upstream(@, t)]
  /\ SetThread(t, "replying", req[t])
  /\ UNCHANGED <<srw_alive, m_map, apps, m_jobs, m_src_key, m_lock, rt, nops, frames,
                 errcode, stdack, ncalls>>

\* that reply does its work and returns, the node address is copied into the inbound
\* header and process returns
ForwardLeave(t) ==
  /\ last' = NoOp
  /\ pc[t] = "replying"
  /\ up[req[t].upstream].m_lock = t
  /\ LET u == req[t].upstream
         final == "FINISH" \in req[t].sph.flags
         buf == Buf(req[t].sph, req[t].event, req[t].data)
         size == sizeof_sph + req[t].sph.event_size + req[t].sph.data_size
         r == reply(up[u], frames[u], final, buf, size, "process")
     IN /\ SetThread(t, "ret", Returned([req[t] EXCEPT !.sph.addr = NodeAddr], 0))
        /\ UNCHANGED <<m_jobs, rt>>
        /\ ReleaseUpstreams([up EXCEPT ![u] = unlock_upstream(r.u)], [frames EXCEPT ![u] = r.f])
  /\ UNCHANGED <<srw_alive, m_map, apps, m_src_key, m_lock, nops, errcode, stdack, ncalls>>

LockNext ==
  \/ \E t \in Threads, f \in KeyFrames \cup ReplyKeyFrames : ReplyCall(t, f)
  \/ \E t \in Threads : UserLock(t)
  \/ \E t \in Threads : UserEnqueue(t)
  \/ \E t \in Threads : UserWrite(t)
  \/ \E t \in Threads : ReplyLock(t)
  \/ \E t \in Threads : ForwardEnter(t)
  \/ \E t \in Threads : ForwardLeave(t)
  \/ \E t \in Threads : Return(t)
  \/ \E u \in UIds : WorkerWrite(u, KeyChunk)
  \/ \E u \in UIds : CloseEnter(u)
  \/ \E u \in UIds : CloseLeave(u)
  \/ \E u \in UIds : WorkerDeleter(u)
  \/ \E u \in UIds : WorkerRelease(u)

\* app c started by one start-task, then SRC_BLOCK requests and REPLY / FINISH frames,
\* with the upstream's lock held from the entry of reply() to its return
LockSpec == KeyInit /\ [][LockNext]_vars

\* the step of thread t takes the registry lock
TakesRegistryLock(t) == pc[t] \in {"start", "stop", "info", "reply", "user"} /\ pc'[t] # pc[t]

\* the step of the runtime thread of upstream u is m_deleter: complete_job takes the
\* registry lock
DeleterStep(u) == rt[u] = "closing" /\ rt'[u] = "closed"

\* holder h holds the lock of some upstream
HoldsUpstreamLock(h) == \E u \in UIds : up[u].m_lock = h

\* C25: a step that takes the registry lock is made by a thread that holds no upstream's
\* lock; an upstream's lock is held only inside reply, by the process thread that
\* forwards a REPLY / FINISH frame or by the runtime thread inside close(), and is free
\* again when close() has come to its deleter.
C25_LockOrder ==
  [][/\ \A t \in Threads : TakesRegistryLock(t) => ~HoldsUpstreamLock(t)
     /\ \A u \in UIds : DeleterStep(u) => ~HoldsUpstreamLock(RtThread(u))
     /\ \A u \in UIds :
          /\ up[u].m_lock \in {0, RtThread(u)} \cup Threads
          /\ up[u].m_lock \in Threads
               => (pc[up[u].m_lock] = "replying" /\ req[up[u].m_lock].upstream = u)
          /\ up[u].m_lock = RtThread(u) => rt[u] = "open"
          /\ rt[u] \in {"closing", "closed"} => up[u].m_lock # RtThread(u)]_vars

\* C25 witness: close() has left reply and has its deleter still to call, and a process
\* thread forwarding a REPLY / FINISH frame holds the lock of the same upstream
C25_Witness ==
  \E u \in UIds, t \in Threads :
    /\ rt[u] = "closing"
    /\ up[u].m_lock = t
    /\ pc[t] = "replying"
    /\ frames[u] # <<>> /\ frames[u][Len(frames[u])].by = "close"

\* the header of frame x carries this node's address
AddrSet(x) == x.buf.ptr => x.buf.sph.addr = NodeAddr

\* C26: every reply frame sent to a client (the info reply, the data frames write()
\* builds, the REPLY / FINISH frames forwarded through an upstream) carries this node's
\* address in the addr field of its header when it is sent.
C26_AddrSet ==
  /\ \A u \in UIds : \A i \in 1..Len(frames[u]) : AddrSet(frames[u][i])
  /\ \A t \in Threads : \A i \in 1..Len(req[t].out) : AddrSet(req[t].out[i])

\* ------------------------------------------------------------------ shard range
\* caller-supplied src_key values of either sign; sph.src_key is a signed int
RangeKeys == {-5, -3, -1, 4}

\* user events on app c with a src_key of RangeKeys
RangeFrames ==
  { Frame(<<"c">> \o At \o M_user, f, k, <<"x">>) : f \in {{}, {"SRC_BLOCK"}}, k \in RangeKeys }

\* app c registered by start-multiple-task with the pool-limit of its profile
RangeInit == RouteInit /\ apps[1].m_pool_size # -1

\* a call of dnet_cmd_exec_raw with a user event of RangeFrames
RangeCall(t, f) ==
  /\ ncalls < MaxCalls
  /\ UpstreamsLeftKey
  /\ Exec(t, f)

RangeNext ==
  \/ \E t \in Threads, f \in RangeFrames : RangeCall(t, f)
  \/ \E t \in Threads : UserLock(t)
  \/ \E t \in Threads : UserEnqueue(t)
  \/ \E t \in Threads : UserWrite(t)
  \/ \E t \in Threads : Return(t)

RangeSpec == RangeInit /\ [][RangeNext]_vars

\* C27: a user event on an app registered by start-multiple-task with pool-limit N is
\* enqueued, whatever src_key the caller supplied, under task_id-app-i for an index i in
\* 0..N-1, and never under the plain app name.
C27_ShardRange ==
  [][\A t \in Threads :
       (EnqueueStep(t) /\ apps[req[t].eng].m_pool_size # -1)
         => LET A == apps[req[t].eng]
            IN /\ req'[t].queue # req[t].app
               /\ \E i \in 0..(A.m_pool_size - 1) :
                    req'[t].queue = A.m_id \o <<"-">> \o req[t].app \o <<"-">> \o lexical_cast(i)]_vars

\* thread t is inside m_map.erase(it) with ~dnet_app_t, and so the runtime handle's stop
\* sequence, running
InStop(t) == pc[t] = "stopping"

\* close() of upstream u has reached m_deleter and complete_job waits for the registry lock
DeleterWaits(u) == rt[u] = "closing" /\ m_lock # 0

\* C28: the runtime handle's stop sequence does not run under the registry lock: a
\* thread that is inside the stop of the app it removed by stop-task does not hold the
\* lock, so the deleter of an upstream closed during the stop can take it.
C28_StopOutsideLock == \A t \in Threads : InStop(t) => m_lock # t

\* the state C28 rules out, with an in-flight SRC_BLOCK job: the stop sequence runs under
\* the lock and the deleter of the job's upstream, closed meanwhile, waits for it
C28_DeleterBlocked ==
  \E t \in Threads, u \in UIds :
    /\ InStop(t) /\ m_lock = t
    /\ Block(u) /\ DeleterWaits(u) /\ InJobs(u)

====
